---- MODULE Spec2Model ----
(***************************************************************************)
(* A model of xmlbuilder (src/xmlbuilder/__init__.py): the XMLBuilder and  *)
(* HTMLBuilder documents, the Element handle with its immediate and scoped *)
(* forms, and the escaping helpers.                                        *)
(*                                                                         *)
(* A Python string is a sequence of one-character strings, so escaping,    *)
(* quoting and name preparation are computed character by character.       *)
(* A Python value (str, Safe, None, True, False, Element._empty) is a      *)
(* record [t, s, safe].                                                    *)
(***************************************************************************)
EXTENDS Integers, Sequences, FiniteSets, TLC

VARIABLES
    variant,        \* "xml" (XMLBuilder) or "html" (HTMLBuilder)
    version,        \* the version argument of __init__
    _encoding,      \* XMLBuilder._encoding
    _indent,        \* XMLBuilder._indent: [none |-> BOOLEAN, s |-> unit]
    _empty_tags,    \* XMLBuilder._empty_tags
    hasStream,      \* whether a stream was passed to __init__
    input,          \* the arguments the caller's script passes, where it is given some
    _document,      \* XMLBuilder._document, the list of strings
    stream,         \* the arguments of the stream's write calls, in order
    _indentation,   \* XMLBuilder._indentation
    emitted,        \* history: every line handed to __write: [line, op, id, open]
    cur,            \* the Element handle the caller holds: [some, _name, _attrs]
    scopes,         \* the caller's stack of entered `with` blocks
    nextId,         \* history: number of scopes entered so far
    failed,         \* history: number of scopes left by an exception
    last            \* history: the most recent operation, its arguments and result

vars == <<variant, version, _encoding, _indent, _empty_tags, hasStream, input,
          _document, stream, _indentation, emitted, cur, scopes, nextId,
          failed, last>>

config == <<variant, version, _encoding, _indent, _empty_tags, hasStream, input>>

-----------------------------------------------------------------------------
(* Strings *)

RECURSIVE Concat(_)
\* ''.join(list)
Concat(ss) == IF ss = <<>> THEN <<>> ELSE Head(ss) \o Concat(Tail(ss))

RECURSIVE Rep(_, _)
\* n * s
Rep(n, s) == IF n <= 0 THEN <<>> ELSE s \o Rep(n - 1, s)

RECURSIVE Replace(_, _, _)
\* s.replace(old, new): left to right, non-overlapping; old is not empty
Replace(s, old, new) ==
    IF Len(s) < Len(old) THEN s
    ELSE IF SubSeq(s, 1, Len(old)) = old
         THEN new \o Replace(SubSeq(s, Len(old) + 1, Len(s)), old, new)
         ELSE <<Head(s)>> \o Replace(Tail(s), old, new)

\* c in s
Contains(s, c) == \E i \in 1..Len(s) : s[i] = c

\* s.startswith(p)
StartsWith(s, p) == Len(p) <= Len(s) /\ SubSeq(s, 1, Len(p)) = p

\* s.endswith(p)
EndsWith(s, p) == Len(p) <= Len(s) /\ SubSeq(s, Len(s) - Len(p) + 1, Len(s)) = p

-----------------------------------------------------------------------------
(* Python values *)

Str(s)  == [t |-> "str",   s |-> s,    safe |-> FALSE]
Safe(s) == [t |-> "str",   s |-> s,    safe |-> TRUE]
None    == [t |-> "None",  s |-> <<>>, safe |-> FALSE]
True    == [t |-> "True",  s |-> <<>>, safe |-> FALSE]
False   == [t |-> "False", s |-> <<>>, safe |-> FALSE]
Empty   == [t |-> "Empty", s |-> <<>>, safe |-> FALSE]
\* an exception raised by the operation
Raised  == [t |-> "raise", s |-> <<>>, safe |-> FALSE]

-----------------------------------------------------------------------------
(* Name preparation *)

kwlist ==
    {<<"F","a","l","s","e">>, <<"N","o","n","e">>, <<"T","r","u","e">>,
     <<"a","n","d">>, <<"a","s">>, <<"a","s","s","e","r","t">>,
     <<"a","s","y","n","c">>, <<"a","w","a","i","t">>,
     <<"b","r","e","a","k">>, <<"c","l","a","s","s">>,
     <<"c","o","n","t","i","n","u","e">>, <<"d","e","f">>, <<"d","e","l">>,
     <<"e","l","i","f">>, <<"e","l","s","e">>, <<"e","x","c","e","p","t">>,
     <<"f","i","n","a","l","l","y">>, <<"f","o","r">>, <<"f","r","o","m">>,
     <<"g","l","o","b","a","l">>, <<"i","f">>, <<"i","m","p","o","r","t">>,
     <<"i","n">>, <<"i","s">>, <<"l","a","m","b","d","a">>,
     <<"n","o","n","l","o","c","a","l">>, <<"n","o","t">>, <<"o","r">>,
     <<"p","a","s","s">>, <<"r","a","i","s","e">>,
     <<"r","e","t","u","r","n">>, <<"t","r","y">>, <<"w","h","i","l","e">>,
     <<"w","i","t","h">>, <<"y","i","e","l","d">>}

\* a table that unmangles every name that ends with '_'
kwunmangle_AnyName(name) ==
    IF Len(name) > 0 /\ name[Len(name)] = "_"
    THEN SubSeq(name, 1, Len(name) - 1)
    ELSE name

\* kwunmangle.get(name, name): the keys are the keywords followed by '_'
kwunmangle(name) ==
    IF /\ Len(name) > 0
       /\ name[Len(name)] = "_"
       /\ SubSeq(name, 1, Len(name) - 1) \in kwlist
    THEN SubSeq(name, 1, Len(name) - 1)
    ELSE name

nameprep(name) == Replace(kwunmangle(name), <<"_", "_">>, <<":">>)

-----------------------------------------------------------------------------
(* Escaping *)

\* xml.sax.saxutils.escape(data)
escape(data) ==
    Replace(Replace(Replace(data, <<"&">>, <<"&","a","m","p",";">>),
                    <<">">>, <<"&","g","t",";">>),
            <<"<">>, <<"&","l","t",";">>)

\* xml.sax.saxutils.quoteattr(data)
quoteattr(data) ==
    LET e == Replace(Replace(Replace(escape(data),
                 <<"\n">>, <<"&","#","1","0",";">>),
                 <<"\r">>, <<"&","#","1","3",";">>),
                 <<"\t">>, <<"&","#","9",";">>)
    IN  IF Contains(e, "\"")
        THEN IF Contains(e, "'")
             THEN <<"\"">> \o Replace(e, <<"\"">>, <<"&","q","u","o","t",";">>)
                           \o <<"\"">>
             ELSE <<"'">> \o e \o <<"'">>
        ELSE <<"\"">> \o e \o <<"\"">>

\* Safe.text(value)
SafeText(value) == Safe(escape(value.s))

\* Safe.attr(value)
SafeAttr(value) == Safe(quoteattr(value.s))

safetext(value) == IF value.safe THEN value ELSE SafeText(value)

safeattr(value) == IF value.safe THEN value ELSE SafeAttr(value)

-----------------------------------------------------------------------------
(* The document: XMLBuilder and HTMLBuilder *)

\* History tag of a line: the operation that writes it, the scope it opens or
\* closes (0: none) and the number of `with` blocks open when it is written.
H(op, id) == [op |-> op, id |-> id, open |-> Len(scopes)]

\* The part of the builder that _write changes.
Sink == [_document |-> _document, stream |-> stream, emitted |-> emitted,
         _indentation |-> _indentation]

\* XMLBuilder._end_empty_tag and HTMLBuilder._end_empty_tag
_end_empty_tag == IF variant = "html" THEN <<">">> ELSE <<"/", ">">>

\* HTMLBuilder._empty_tags
HtmlEmptyTags ==
    {<<"a","r","e","a">>, <<"b","a","s","e">>, <<"b","r">>, <<"c","o","l">>,
     <<"e","m","b","e","d">>, <<"h","r">>, <<"i","m","g">>,
     <<"i","n","p","u","t">>, <<"l","i","n","k">>, <<"m","e","t","a">>,
     <<"s","o","u","r","c","e">>, <<"t","r","a","c","k">>, <<"w","b","r">>}

\* The grave accent character (the lexer of TLA+ accepts none in a string).
Grave == "GRAVE"

\* HTMLBuilder._attr_quote
_attr_quote == {" ", "\"", "'", "=", "<", ">", Grave}

\* self.__write = stream.write if stream else self._document.append
\* (h records, for the history, the operation that wrote the line)
__write(st, line, h) ==
    LET e == [line |-> line, op |-> h.op, id |-> h.id, open |-> h.open]
    IN  IF hasStream
        THEN [st EXCEPT !.stream = Append(@, line), !.emitted = Append(@, e)]
        ELSE [st EXCEPT !._document = Append(@, line), !.emitted = Append(@, e)]

\* _write without the decrement of a negative indent
_write_NoDedent(st, line, indent, h) ==
    LET l  == IF ~_indent.none
              THEN Rep(st._indentation, _indent.s) \o line \o <<"\n">>
              ELSE line
        s2 == __write(st, l, h)
    IN  IF indent > 0
        THEN [s2 EXCEPT !._indentation = @ + indent]
        ELSE s2

\* XMLBuilder._write(line, indent)
_write(st, line, indent, h) ==
    LET s1 == IF indent < 0
              THEN [st EXCEPT !._indentation = @ + indent]
              ELSE st
        l  == IF ~_indent.none
              THEN Rep(s1._indentation, _indent.s) \o line \o <<"\n">>
              ELSE line
        s2 == __write(s1, l, h)
    IN  IF indent > 0
        THEN [s2 EXCEPT !._indentation = @ + indent]
        ELSE s2

\* XMLBuilder._attr(attr, value)
XmlAttr(attr, value) ==
    LET v == IF value.t = "True" THEN Str(attr) ELSE value
    IN  nameprep(attr) \o <<"=">> \o safeattr(v).s

\* HTMLBuilder._attr(attr, value)
HtmlAttr(attr, value) ==
    IF value.t = "True" \/ (value.t = "str" /\ attr = value.s)
    THEN nameprep(attr)
    ELSE IF value.s = <<>> \/ \E i \in 1..Len(value.s) : value.s[i] \in _attr_quote
         THEN XmlAttr(attr, value)
         ELSE nameprep(attr) \o <<"=">> \o value.s

\* self._builder._attr(attr, value)
_attr(attr, value) ==
    IF variant = "html" THEN HtmlAttr(attr, value) ELSE XmlAttr(attr, value)

\* XMLBuilder.__str__()
__str__ == Concat(_document)

\* Encodings known to the codec registry (those the model uses).
Codecs == {<<"u","t","f","-","8">>}

\* XMLBuilder.__bytes__(): str.encode raises LookupError for an unknown
\* encoding name, the empty name included.  Every character the model
\* writes is representable in the known encodings.
__bytes__ ==
    IF _encoding \in Codecs
    THEN [t |-> "bytes", s |-> __str__, safe |-> FALSE]
    ELSE Raised

-----------------------------------------------------------------------------
(* Element *)

NoElement == [some |-> FALSE, _name |-> <<>>, _attrs |-> <<>>]

\* Element.__init__(name, builder)
Element(name) == [some |-> TRUE, _name |-> nameprep(name), _attrs |-> <<>>]

RECURSIVE JoinAttrs(_)
\* ''.join(' ' + self._builder._attr(attr, value)
\*         for attr, value in attrs.items() if value not in (None, False))
JoinAttrs(attrs) ==
    IF attrs = <<>> THEN <<>>
    ELSE LET a == Head(attrs)
         IN  (IF a[2].t \in {"None", "False"}
              THEN <<>>
              ELSE <<" ">> \o _attr(a[1], a[2]))
             \o JoinAttrs(Tail(attrs))

\* __call__ without the space after an attribute string that ends with '/'
CallAttrs_NoSeparator(attrs) == JoinAttrs(attrs)

\* the value of self._attrs after the first two statements of __call__
CallAttrs(attrs) ==
    LET j == JoinAttrs(attrs)
    IN  IF EndsWith(j, <<"/">>) THEN j \o <<" ">> ELSE j

\* __call__ taking a void tag's string content for content
CallLine_VoidUnlessContent(el, value, pre, post, attrs) ==
    LET a == CallAttrs(attrs)
    IN  IF value.t = "None" \/ (el._name \in _empty_tags /\ value.t # "str")
        THEN safetext(pre).s \o <<"<">> \o el._name \o a \o _end_empty_tag
             \o safetext(post).s
        ELSE IF value.t # "Empty"
        THEN safetext(pre).s \o <<"<">> \o el._name \o a
             \o <<">">> \o safetext(value).s \o <<"<", "/">> \o el._name \o <<">">>
             \o safetext(post).s
        ELSE <<>>

\* __call__ taking the missing content argument for None
CallLine_EmptyIsNone(el, value, pre, post, attrs) ==
    LET a == CallAttrs(attrs)
    IN  IF value.t \in {"None", "Empty"} \/ el._name \in _empty_tags
        THEN safetext(pre).s \o <<"<">> \o el._name \o a \o _end_empty_tag
             \o safetext(post).s
        ELSE safetext(pre).s \o <<"<">> \o el._name \o a
             \o <<">">> \o safetext(value).s \o <<"<", "/">> \o el._name \o <<">">>
             \o safetext(post).s

\* the line __call__ writes; <<>> stands for "nothing is written"
\* (a written line is never empty: it holds at least '<' and '>')
CallLine(el, value, pre, post, attrs) ==
    LET a == CallAttrs(attrs)
    IN  IF value.t = "None" \/ el._name \in _empty_tags
        THEN safetext(pre).s \o <<"<">> \o el._name \o a \o _end_empty_tag
             \o safetext(post).s
        ELSE IF value.t # "Empty"
        THEN safetext(pre).s \o <<"<">> \o el._name \o a
             \o <<">">> \o safetext(value).s \o <<"<", "/">> \o el._name \o <<">">>
             \o safetext(post).s
        ELSE <<>>

\* Element.__call__(_value, _pre, _post, **attrs) on the sink st
ElementCall(st, el, value, pre, post, attrs, h) ==
    LET line == CallLine(el, value, pre, post, attrs)
    IN  [el |-> [el EXCEPT !._attrs = CallAttrs(attrs)],
         st |-> IF line = <<>> THEN st ELSE _write(st, line, 0, h)]

-----------------------------------------------------------------------------
(* Bounds and inputs *)

\* lines written after construction, in the specifications of scopes
MaxLines == 4
\* lines written after construction, in the specification of the sinks
MaxDocLines == 3
\* lines written after construction, in the specifications of one call
MaxCallLines == 2

UTF8 == <<"u","t","f","-","8">>

Versions  == {<<>>, <<"1",".","0">>}
Encodings == {<<>>, UTF8}
Indents   == {[none |-> TRUE,  s |-> <<>>],
              [none |-> FALSE, s |-> <<>>],
              [none |-> FALSE, s |-> <<" ", " ">>]}
\* the empty_tags argument of XMLBuilder.__init__ (none given: the class's empty set)
EmptyTagArgs == {{}, {<<"b","r">>}}

-----------------------------------------------------------------------------
(* Construction *)

Sink0 == [_document |-> << <<>> >>, stream |-> <<>>, emitted |-> <<>>,
          _indentation |-> 0]

XmlDeclaration(v, e) ==
    <<"<","?","x","m","l"," ","v","e","r","s","i","o","n","=","\"">> \o v
    \o <<"\""," ","e","n","c","o","d","i","n","g","=","\"">> \o e
    \o <<"\"","?",">">>

Doctype == <<"<","!","D","O","C","T","Y","P","E"," ","h","t","m","l",">">>

\* __init__ writing the declaration whenever a version is given
XMLBuilderInit_VersionOnly(v, e) ==
    IF v # <<>>
    THEN _write(Sink0, XmlDeclaration(v, e), 0, H("init", 0))
    ELSE Sink0

\* XMLBuilder.__init__: the sink after construction
XMLBuilderInit(v, e) ==
    IF v # <<>> /\ e # <<>>
    THEN _write(Sink0, XmlDeclaration(v, e), 0, H("init", 0))
    ELSE Sink0

\* HTMLBuilder.__init__: the sink after construction
HTMLBuilderInit(e) ==
    LET s0 == XMLBuilderInit(<<>>, e)
    IN  IF e # <<>>
        THEN ElementCall(_write(s0, Doctype, 0, H("init", 0)),
                         Element(<<"m","e","t","a">>), Empty, Str(<<>>), Str(<<>>),
                         << <<<<"c","h","a","r","s","e","t">>, Str(e)>> >>,
                         H("init", 0)).st
        ELSE s0

NoLast == [op |-> "init", name |-> <<>>, value |-> Empty, pre |-> Str(<<>>),
           post |-> Str(<<>>), attrs |-> <<>>, ret |-> None]

\* the arguments of a script: a tag name and the arguments of a call
NoInput == [name |-> <<>>, value |-> Empty, pre |-> Str(<<>>), post |-> Str(<<>>),
            attrs |-> <<>>]

SetSink(st) ==
    /\ _document' = st._document
    /\ stream' = st.stream
    /\ emitted' = st.emitted
    /\ _indentation' = st._indentation

InitWith(variants, versions, encodings, indents, streams, emptyTagArgs, inputs) ==
    /\ input \in inputs
    /\ variant \in variants
    /\ _encoding \in encodings
    /\ version \in (IF variant = "html" THEN {<<>>} ELSE versions)
    /\ _indent \in indents
    /\ hasStream \in streams
    /\ _empty_tags \in (IF variant = "html" THEN {HtmlEmptyTags} ELSE emptyTagArgs)
    /\ scopes = <<>>
    /\ LET st == IF variant = "html"
                 THEN HTMLBuilderInit(_encoding)
                 ELSE XMLBuilderInit(version, _encoding)
       IN  /\ _document = st._document
           /\ stream = st.stream
           /\ emitted = st.emitted
           /\ _indentation = st._indentation
    /\ cur = NoElement
    /\ nextId = 0
    /\ failed = 0
    /\ last = NoLast

-----------------------------------------------------------------------------
(* Operations *)

Written == Cardinality({i \in DOMAIN emitted : emitted[i].op # "init"})

\* XMLBuilder.__getattr__(name) and Element.__getattr__(name)
GetAttr(name) ==
    /\ cur' = Element(name)
    /\ last' = [NoLast EXCEPT !.op = "getattr", !.name = name]
    /\ UNCHANGED <<config, _document, stream, _indentation, emitted, scopes,
                   nextId, failed>>

\* Element.__call__(_value, _pre, _post, **attrs) on the handle held
Call(value, pre, post, attrs) ==
    /\ cur.some
    /\ LET r == ElementCall(Sink, cur, value, pre, post, attrs, H("call", 0))
       IN  /\ SetSink(r.st)
           /\ cur' = r.el
    /\ last' = [NoLast EXCEPT !.op = "call", !.value = value, !.pre = pre,
                              !.post = post, !.attrs = attrs]
    /\ UNCHANGED <<config, scopes, nextId, failed>>

\* Element.__enter__()
Enter ==
    /\ cur.some
    /\ SetSink(_write(Sink, <<"<">> \o cur._name \o cur._attrs \o <<">">>, 1,
                      H("enter", nextId + 1)))
    /\ scopes' = Append(scopes, [_name |-> cur._name, id |-> nextId + 1])
    /\ nextId' = nextId + 1
    /\ last' = [NoLast EXCEPT !.op = "enter"]
    /\ UNCHANGED <<config, cur, failed>>

\* __exit__ writing the closing tag without its slash
ElementExit_NoSlash(st, el, typ, h) ==
    IF typ
    THEN [st |-> st, ret |-> False]
    ELSE [st |-> _write(st, <<"<">> \o el._name \o <<">">>, -1, h),
          ret |-> True]

\* __exit__ without the early return on an exception
ElementExit_AlwaysClose(st, el, typ, h) ==
    [st |-> _write(st, <<"<", "/">> \o el._name \o <<">">>, -1, h),
     ret |-> IF typ THEN False ELSE True]

\* __exit__ taking the depth back on an exception
ElementExit_DedentOnFail(st, el, typ, h) ==
    IF typ
    THEN [st |-> [st EXCEPT !._indentation = @ - 1], ret |-> False]
    ELSE [st |-> _write(st, <<"<", "/">> \o el._name \o <<">">>, -1, h),
          ret |-> True]

\* what Element.__exit__(typ, val, tb) does to the sink
ElementExit(st, el, typ, h) ==
    IF typ
    THEN [st |-> st, ret |-> False]
    ELSE [st |-> _write(st, <<"<", "/">> \o el._name \o <<">">>, -1, h),
          ret |-> True]

\* Element.__exit__(None, None, None): the block of the innermost scope ends
ExitOk ==
    /\ scopes # <<>>
    /\ LET r == ElementExit(Sink, scopes[Len(scopes)], FALSE,
                            H("exit", scopes[Len(scopes)].id))
       IN  /\ SetSink(r.st)
           /\ last' = [NoLast EXCEPT !.op = "exit", !.ret = r.ret]
    /\ scopes' = SubSeq(scopes, 1, Len(scopes) - 1)
    /\ UNCHANGED <<config, cur, nextId, failed>>

\* Element.__exit__(typ, val, tb) with an exception in flight, which the
\* caller catches outside this scope
ExitFail ==
    /\ scopes # <<>>
    /\ LET r == ElementExit(Sink, scopes[Len(scopes)], TRUE,
                            H("fail", scopes[Len(scopes)].id))
       IN  /\ SetSink(r.st)
           /\ last' = [NoLast EXCEPT !.op = "fail", !.ret = r.ret]
    /\ scopes' = SubSeq(scopes, 1, Len(scopes) - 1)
    /\ failed' = failed + 1
    /\ UNCHANGED <<config, cur, nextId>>

\* XMLBuilder.__getitem__(value) and Element.__getitem__(value)
Text(value) ==
    /\ SetSink(_write(Sink, safetext(value).s, 0, H("text", 0)))
    /\ last' = [NoLast EXCEPT !.op = "text", !.value = value]
    /\ UNCHANGED <<config, cur, scopes, nextId, failed>>

\* str(builder)
Render ==
    /\ last' = [NoLast EXCEPT !.op = "str", !.ret = Str(__str__)]
    /\ UNCHANGED <<config, _document, stream, _indentation, emitted, cur,
                   scopes, nextId, failed>>

\* bytes(builder)
Bytes ==
    /\ last' = [NoLast EXCEPT !.op = "bytes", !.ret = __bytes__]
    /\ UNCHANGED <<config, _document, stream, _indentation, emitted, cur,
                   scopes, nextId, failed>>

-----------------------------------------------------------------------------
(* Specification of scopes and indentation *)

\* the arguments of the calls: (_value, attrs)
ScopeCalls == {<<Str(<<"x">>), <<>>>>}
ScopeTexts == {Str(<<"x">>)}
ScopeTags  == {<<"p">>, <<"b","r">>}

ScopeIndents == {[none |-> TRUE,  s |-> <<>>], [none |-> FALSE, s |-> <<" ", " ">>]}

Init == InitWith({"xml"}, {<<"1",".","0">>}, {UTF8}, ScopeIndents, {FALSE}, {{}},
                 {NoInput})

Next ==
    \/ \E n \in ScopeTags : GetAttr(n)
    \/ Written < MaxLines /\ \E c \in ScopeCalls :
                                 Call(c[1], Str(<<>>), Str(<<>>), c[2])
    \/ Written < MaxLines /\ Enter
    \/ Written < MaxLines /\ ExitOk
    \/ ExitFail
    \/ Written < MaxLines /\ \E v \in ScopeTexts : Text(v)

Spec == Init /\ [][Next]_vars

-----------------------------------------------------------------------------
(* Specification of the sinks and the preamble *)

DocCalls == {<<Str(<<"x">>), <<>>>>}
DocTexts == {Str(<<"x">>)}
DocTags  == {<<"p">>}

InitDoc == InitWith({"xml", "html"}, Versions, Encodings, Indents, BOOLEAN, {{}},
                    {NoInput})

NextDoc ==
    \/ \E n \in DocTags : GetAttr(n)
    \/ Written < MaxDocLines /\ \E c \in DocCalls :
                                    Call(c[1], Str(<<>>), Str(<<>>), c[2])
    \/ Written < MaxDocLines /\ Enter
    \/ Written < MaxDocLines /\ ExitOk
    \/ ExitFail
    \/ Written < MaxDocLines /\ \E v \in DocTexts : Text(v)
    \/ Render
    \/ Bytes

SpecDoc == InitDoc /\ [][NextDoc]_vars

-----------------------------------------------------------------------------
(* Specification of one script: a tag, called and entered with given arguments *)

CallTags   == {<<"p">>, <<"b","r">>, <<"i","f","_">>}
CallValues == {Empty, None, Str(<<"x">>), Str(<<"<","&",">">>),
               Str(<<"&","a","m","p",";">>), Safe(<<"<","b",">","&">>)}
PreTexts   == {Str(<<>>), Str(<<"<">>), Safe(<<"<","i",">">>)}
PostTexts  == {Str(<<>>), Str(<<"&">>), Safe(<<"&","l","t",";">>)}
AttrNames  == {<<"i","d">>, <<"i","f","_">>}
AttrValues == {None, False, True, Str(<<>>), Str(<<"x">>), Str(<<"a","&","b">>),
               Str(<<"a"," ","b">>), Str(<<"\"","'","<">>), Str(<<"i","d">>),
               Str(<<"i","f","_">>), Str(<<"i","f">>), Safe(<<"'","<","'">>)}
\* **attrs: keyword arguments, each name once, in the order supplied
AttrLists ==
    {<<>>}
    \cup {<< <<a, v>> >> : a \in AttrNames, v \in AttrValues}
    \cup {<< <<a[1], v>>, <<a[2], w>> >> :
             a \in {b \in AttrNames \X AttrNames : b[1] # b[2]},
             v \in AttrValues, w \in AttrValues}
CallInputs ==
    {[name |-> n, value |-> v, pre |-> p, post |-> q, attrs |-> <<>>] :
        n \in CallTags, v \in CallValues, p \in PreTexts, q \in PostTexts}
    \cup {[name |-> n, value |-> v, pre |-> Str(<<>>), post |-> Str(<<>>), attrs |-> a] :
             n \in CallTags, v \in {Empty, Str(<<"x">>)}, a \in AttrLists}
CallIndents   == {[none |-> TRUE, s |-> <<>>], [none |-> FALSE, s |-> <<" ", " ">>]}
\* XMLBuilder(empty_tags=('br', 'if'))
CallEmptyTags == {{<<"b","r">>, <<"i","f">>}}

InitCall == InitWith({"xml", "html"}, {<<>>}, {<<>>}, CallIndents, {FALSE},
                     CallEmptyTags, CallInputs)

NextCall ==
    \/ GetAttr(input.name)
    \/ Written < MaxCallLines /\ Call(input.value, input.pre, input.post, input.attrs)
    \/ Written < MaxCallLines /\ Enter
    \/ Written < MaxCallLines /\ ExitOk
    \/ Written < MaxCallLines /\ input.value.t = "str" /\ Text(input.value)

SpecCall == InitCall /\ [][NextCall]_vars

-----------------------------------------------------------------------------
(* Specification of one script whose call passes attributes *)

QuoteTags   == {<<"a">>, <<"b","r">>}
QuoteNames  == {<<"h","r","e","f">>, <<"i","f","_">>}
QuoteValues == {None, False, True, Str(<<>>), Str(<<"x">>), Str(<<"/">>),
                Str(<<"a","/">>), Str(<<"a","&","b">>), Str(<<"a"," ","b">>),
                Str(<<"a","\"","b">>), Str(<<"a","'","b">>), Str(<<"a","=","b">>),
                Str(<<"a","<","b">>), Str(<<"a",">","b">>), Str(<<"a",Grave,"b">>),
                Str(<<"\"","'">>), Str(<<"h","r","e","f">>), Str(<<"i","f","_">>),
                Str(<<"i","f">>), Safe(<<"a","/">>), Safe(<<"'","a"," ","b","'">>)}
\* **attrs: one attribute, or href followed by id
QuoteLists ==
    {<<>>}
    \cup {<< <<a, v>> >> : a \in QuoteNames, v \in QuoteValues}
    \cup {<< <<<<"h","r","e","f">>, v>>, <<<<"i","d">>, w>> >> :
             v \in {Str(<<"a","/">>), Str(<<"x">>)},
             w \in {None, Str(<<"b">>), Str(<<"a","/">>)}}
QuoteInputs ==
    {[name |-> n, value |-> v, pre |-> Str(<<>>), post |-> Str(<<>>), attrs |-> a] :
        n \in QuoteTags, v \in {Empty, None, Str(<<"x">>)}, a \in QuoteLists}
\* XMLBuilder(empty_tags=('br',))
QuoteEmptyTags == {{<<"b","r">>}}

InitQuote == InitWith({"xml", "html"}, {<<>>}, {<<>>}, CallIndents, {FALSE},
                      QuoteEmptyTags, QuoteInputs)

SpecQuote == InitQuote /\ [][NextCall]_vars

-----------------------------------------------------------------------------
(* Specification of one script whose names need preparation *)

NameTags  == {<<"p">>, <<"f","r","o","m","_">>, <<"i","d","_">>, <<"a","_","_","b">>,
              <<"a","_","_","_","b">>, <<"f","r","o","m","_","_">>}
NameAttrs == {<<"f","o","r","_">>, <<"i","d","_">>, <<"x","_","_","y">>}
NameLists ==
    {<<>>}
    \cup {<< <<a, v>> >> : a \in NameAttrs, v \in {None, Str(<<"v">>)}}
    \cup {<< <<a[1], Str(<<"v">>)>>, <<a[2], Str(<<"v">>)>> >> :
             a \in {b \in NameAttrs \X NameAttrs : b[1] # b[2]}}
NameInputs ==
    {[name |-> n, value |-> v, pre |-> Str(<<>>), post |-> Str(<<>>), attrs |-> a] :
        n \in NameTags, v \in {Empty, Str(<<"x">>)}, a \in NameLists}

InitName == InitWith({"xml", "html"}, {<<>>}, {<<>>}, CallIndents, {FALSE}, {{}},
                     NameInputs)

SpecName == InitName /\ [][NextCall]_vars

-----------------------------------------------------------------------------
(* Specification of one script with names that are no identifiers, such    *)
(* as the empty name of getattr(b, '')                                     *)

OddTags  == {<<>>, <<"_","_">>, <<"p">>}
OddAttrs == {<<>>, <<"_","_">>, <<"i","d">>}
OddLists == {<<>>} \cup {<< <<a, Str(<<"v">>)>> >> : a \in OddAttrs}
OddInputs ==
    {[name |-> n, value |-> v, pre |-> Str(<<>>), post |-> Str(<<>>), attrs |-> a] :
        n \in OddTags, v \in {Empty, None, Str(<<"x">>)}, a \in OddLists}

InitOdd == InitWith({"xml", "html"}, {<<>>}, {<<>>}, CallIndents, {FALSE}, {{}},
                    OddInputs)

SpecOdd == InitOdd /\ [][NextCall]_vars

-----------------------------------------------------------------------------
(* Reading the written text back *)

RECURSIVE LeadingSpaces(_)
\* the number of spaces a line starts with
LeadingSpaces(l) ==
    IF l # <<>> /\ Head(l) = " " THEN 1 + LeadingSpaces(Tail(l)) ELSE 0

\* a line without its indentation and its line break
Body(l) ==
    LET n == LeadingSpaces(l)
        e == IF l # <<>> /\ l[Len(l)] = "\n" THEN Len(l) - 1 ELSE Len(l)
    IN  SubSeq(l, n + 1, e)

RECURSIVE UpTo(_, _)
\* the characters of s before the first one that is in stop
UpTo(s, stop) ==
    IF s = <<>> \/ Head(s) \in stop THEN <<>> ELSE <<Head(s)>> \o UpTo(Tail(s), stop)

\* a line that begins with a closing tag
IsClosingTag(l) == StartsWith(Body(l), <<"<", "/">>)

\* the name of the tag a line begins with
TagName(l) ==
    LET b == Body(l)
    IN  UpTo(SubSeq(b, IF IsClosingTag(l) THEN 3 ELSE 2, Len(b)), {" ", ">", "/"})

RECURSIVE Reverse(_)
Reverse(q) == IF q = <<>> THEN <<>> ELSE Reverse(Tail(q)) \o <<Head(q)>>

RECURSIVE SelectOp(_, _)
\* the lines of the history e written by the operations in ops, in order
SelectOp(e, ops) ==
    IF e = <<>> THEN <<>>
    ELSE (IF Head(e).op \in ops THEN <<Head(e)>> ELSE <<>>) \o SelectOp(Tail(e), ops)

\* the names of the opening tags written by scope entries, in order
OpenNames == [i \in DOMAIN SelectOp(emitted, {"enter"}) |->
                 TagName(SelectOp(emitted, {"enter"})[i].line)]

\* the names of the closing tags written by scope exits, in order
CloseNames == [i \in DOMAIN SelectOp(emitted, {"exit"}) |->
                  TagName(SelectOp(emitted, {"exit"})[i].line)]

RECURSIVE Unclosed(_, _)
\* Reads the scope tags of a history in order, keeping the names of the
\* opening tags not yet closed; <<"!">> as soon as a closing tag does not
\* name the last of them.
Unclosed(e, open) ==
    IF e = <<>> THEN open
    ELSE IF Head(e).op = "enter"
         THEN IF IsClosingTag(Head(e).line) THEN <<"!">>
              ELSE Unclosed(Tail(e), Append(open, TagName(Head(e).line)))
         ELSE IF /\ IsClosingTag(Head(e).line)
                 /\ open # <<>>
                 /\ open[Len(open)] = TagName(Head(e).line)
              THEN Unclosed(Tail(e), SubSeq(open, 1, Len(open) - 1))
              ELSE <<"!">>

ScopeLines == SelectOp(emitted, {"enter", "exit"})

\* no scope was entered after a scope was exited: the scopes form one chain
OneChain ==
    \A i, j \in DOMAIN ScopeLines :
        ScopeLines[i].op = "exit" /\ ScopeLines[j].op = "enter" => j < i

-----------------------------------------------------------------------------
(* C1 *)

\* C1 as stated: once every scope of a run without failures is closed, the
\* closing tags written are the exact reverse of the opening tags written.
C1_CloseIsReverseOfOpen ==
    (failed = 0 /\ scopes = <<>>) => CloseNames = Reverse(OpenNames)

\* C1, amended: in a run whose scopes are all exited normally, every scope
\* writes one opening tag and at most one closing tag (exactly one once it
\* is closed), the closing tag has the name of the opening tag, and every
\* closing tag names the most recently opened scope not yet closed; the
\* closing tags are the exact reverse of the opening tags when the scopes
\* form one chain (no scope is entered after one is exited).
C1_WellNested ==
    failed = 0 =>
        /\ \A k \in 1..nextId :
              /\ Cardinality({i \in DOMAIN emitted :
                     emitted[i].op = "enter" /\ emitted[i].id = k}) = 1
              /\ Cardinality({i \in DOMAIN emitted :
                     emitted[i].op = "exit" /\ emitted[i].id = k})
                   = IF \E j \in DOMAIN scopes : scopes[j].id = k THEN 0 ELSE 1
              /\ \A i, j \in DOMAIN emitted :
                     (emitted[i].id = k /\ emitted[j].id = k) =>
                         TagName(emitted[i].line) = TagName(emitted[j].line)
        /\ Unclosed(ScopeLines, <<>>) = [j \in DOMAIN scopes |-> scopes[j]._name]
        /\ OneChain =>
               CloseNames = Reverse(SubSeq(OpenNames,
                                           Len(OpenNames) - Len(CloseNames) + 1,
                                           Len(OpenNames)))

\* two scopes of different names, the second inside the first, both closed
C1_Witness ==
    /\ failed = 0
    /\ scopes = <<>>
    /\ Len(OpenNames) = 2
    /\ OpenNames[1] # OpenNames[2]
    /\ CloseNames = Reverse(OpenNames)

-----------------------------------------------------------------------------
(* C2 *)

\* C2: every line is framed by the depth in force: with an indent unit, a
\* line ends with a line break, the opening and the closing tag of a scope
\* carry the same prefix, and a line written inside d open scopes is
\* prefixed with exactly d units; with indent None no line has a prefix or
\* a line break.
C2_LinesFramedByDepth ==
    /\ \A i \in DOMAIN emitted :
          LET l == emitted[i].line
          IN  IF _indent.none
              THEN LeadingSpaces(l) = 0 /\ ~Contains(l, "\n")
              ELSE /\ l[Len(l)] = "\n"
                   /\ emitted[i].op \in {"call", "text"} =>
                          LeadingSpaces(l) = emitted[i].open * Len(_indent.s)
    /\ \A i, j \in DOMAIN emitted :
          (/\ emitted[i].op = "enter"
           /\ emitted[j].op = "exit"
           /\ emitted[i].id = emitted[j].id) =>
              LeadingSpaces(emitted[i].line) = LeadingSpaces(emitted[j].line)

-----------------------------------------------------------------------------
(* C3 *)

\* C3: entering a scope increments the depth by one and a normal exit
\* decrements it by one; while no scope was left by an exception the depth
\* is not negative and is the number of scopes entered and not yet exited
\* (0 once all are closed); no element call and no text emission changes it.
C3_DepthCountsOpenScopes ==
    /\ [](failed = 0 => _indentation >= 0 /\ _indentation = Len(scopes))
    /\ [][/\ last'.op = "enter" => _indentation' = _indentation + 1
          /\ last'.op = "exit" => _indentation' = _indentation - 1
          /\ last'.op \in {"call", "text"} => _indentation' = _indentation]_vars

\* a scope was entered, a line was written inside it, and it was closed
C3_Witness ==
    /\ failed = 0
    /\ scopes = <<>>
    /\ _indentation = 0
    /\ last.op = "exit"
    /\ \E i \in DOMAIN emitted : emitted[i].op \in {"call", "text"} /\ emitted[i].open = 1

-----------------------------------------------------------------------------
(* C4 *)

\* C4: an exit with an exception in flight writes nothing (no closing tag)
\* and returns False, so the exception propagates; a normal exit writes the
\* closing tag </name> of its scope, once.
C4_ExitWritesClosingTagUnlessFailed ==
    [][/\ last'.op = "fail" =>
             /\ emitted' = emitted
             /\ _document' = _document
             /\ stream' = stream
             /\ last'.ret = False
       /\ last'.op = "exit" =>
             /\ Len(emitted') = Len(emitted) + 1
             /\ SubSeq(emitted', 1, Len(emitted)) = emitted
             /\ Body(emitted'[Len(emitted')].line)
                  = <<"<", "/">> \o scopes[Len(scopes)]._name \o <<">">>
             /\ _document' = Append(_document, emitted'[Len(emitted')].line)
             /\ last'.ret = True]_vars

\* one scope was left by an exception and an enclosing one normally
C4_Witness ==
    /\ failed = 1
    /\ last.op = "exit"
    /\ Len(SelectOp(emitted, {"enter"})) = 2
    /\ Len(SelectOp(emitted, {"exit"})) = 1

-----------------------------------------------------------------------------
(* C9 *)

\* a line written at depth 0
Line0(text) == IF _indent.none THEN text ELSE text \o <<"\n">>

\* the preamble C9 states for the document's variant, version and encoding
Preamble ==
    IF variant = "xml"
    THEN IF version # <<>> /\ _encoding # <<>>
         THEN <<Line0(XmlDeclaration(version, _encoding))>>
         ELSE <<>>
    ELSE IF _encoding # <<>>
         THEN <<Line0(Doctype),
                Line0(<<"<","m","e","t","a"," ","c","h","a","r","s","e","t","=">>
                      \o _encoding \o <<">">>)>>
         ELSE <<>>

\* C9: the in-memory document only grows: every operation leaves the text
\* rendered before it as a prefix of the text rendered after it, and
\* rendering (as text or as bytes) changes nothing of the document; the
\* lines written by the constructor are exactly the preamble of the
\* variant (the XML declaration iff version and encoding are both
\* non-empty; <!DOCTYPE html> and the charset meta iff the encoding is
\* non-empty), and every render starts with them.
C9_AppendOnlyAfterPreamble ==
    /\ [][/\ StartsWith(__str__', __str__)
          /\ last'.op \in {"str", "bytes"} =>
                /\ UNCHANGED <<config, _document, stream, _indentation, cur, scopes>>
                /\ last'.op = "str" => last'.ret = Str(__str__)]_vars
    /\ [](/\ [i \in DOMAIN SelectOp(emitted, {"init"}) |->
                 SelectOp(emitted, {"init"})[i].line] = Preamble
          /\ ~hasStream =>
                /\ StartsWith(__str__, Concat(Preamble))
                /\ last.op = "init" => __str__ = Concat(Preamble))

\* an HTML document with its preamble, rendered after more lines were written
C9_Witness ==
    /\ ~hasStream
    /\ variant = "html"
    /\ Len(Preamble) = 2
    /\ Written = 2
    /\ last.op = "str"
    /\ last.ret.s # Concat(Preamble)

-----------------------------------------------------------------------------
(* C10 *)

\* C10: with a stream, the document reads as the empty string and as empty
\* bytes in every state, and the stream has received every line once, in
\* the order of emission; without a stream, the document reads as the
\* concatenation of all lines written so far.
C10_StreamOrBuffer ==
    LET lines == [i \in DOMAIN emitted |-> emitted[i].line]
    IN  /\ hasStream =>
              /\ __str__ = <<>>
              /\ __bytes__ = [t |-> "bytes", s |-> <<>>, safe |-> FALSE]
              /\ stream = lines
        /\ ~hasStream =>
              /\ __str__ = Concat(lines)
              /\ stream = <<>>

-----------------------------------------------------------------------------
(* Escaping, as the claims state it *)

\* the entity of a character of text
EscapeChar(c) ==
    IF c = "&" THEN <<"&","a","m","p",";">>
    ELSE IF c = "<" THEN <<"&","l","t",";">>
    ELSE IF c = ">" THEN <<"&","g","t",";">>
    ELSE <<c>>

RECURSIVE EscapeOnce(_)
\* every character of s escaped once
EscapeOnce(s) == IF s = <<>> THEN <<>> ELSE EscapeChar(Head(s)) \o EscapeOnce(Tail(s))

\* the emitted form of a text value: unchanged if marked safe, escaped once if not
Emitted(v) == IF v.safe THEN v.s ELSE EscapeOnce(v.s)

Entities == {<<"&","a","m","p",";">>, <<"&","l","t",";">>, <<"&","g","t",";">>,
             <<"&","q","u","o","t",";">>, <<"&","#","1","0",";">>,
             <<"&","#","1","3",";">>, <<"&","#","9",";">>}

\* no raw '<' or '>' and no '&' that does not start an entity
WellEscaped(t) ==
    \A i \in DOMAIN t :
        /\ t[i] \notin {"<", ">"}
        /\ t[i] = "&" => \E e \in Entities : StartsWith(SubSeq(t, i, Len(t)), e)

\* a line written at the current depth without a change of depth
Framed(text) ==
    IF _indent.none THEN text
    ELSE Rep(_indentation, _indent.s) \o text \o <<"\n">>

\* the step appends exactly one line, text framed at the current depth
WritesLine(text) ==
    /\ Len(emitted') = Len(emitted) + 1
    /\ SubSeq(emitted', 1, Len(emitted)) = emitted
    /\ emitted'[Len(emitted')].line = Framed(text)
    /\ _document' = Append(_document, Framed(text))

\* the step writes nothing
WritesNothing == emitted' = emitted /\ _document' = _document /\ stream' = stream

-----------------------------------------------------------------------------
(* C5 *)

\* C5: a value marked Safe is emitted unchanged, and the safe-checking
\* path returns its own result unchanged; an unmarked value is escaped
\* exactly once (& first), so that its emitted form holds no raw '<' or
\* '>' and no '&' that does not start an entity.  This for content, text,
\* pre-text, post-text and attribute values.
C5_EscapedOnceUnlessSafe ==
    [][/\ last'.op = "text" => WritesLine(Emitted(last'.value))
       /\ (last'.op = "call" /\ last'.value.t = "str" /\ cur._name \notin _empty_tags) =>
             WritesLine(Emitted(last'.pre) \o <<"<">> \o cur._name \o cur'._attrs
                        \o <<">">> \o Emitted(last'.value)
                        \o <<"<", "/">> \o cur._name \o <<">">> \o Emitted(last'.post))
       /\ last'.op \in {"call", "text"} =>
             \A v \in {last'.value, last'.pre, last'.post}
                      \cup {last'.attrs[k][2] : k \in DOMAIN last'.attrs} :
                 v.t = "str" =>
                     /\ safetext(safetext(v)) = safetext(v)
                     /\ safeattr(safeattr(v)) = safeattr(v)
                     /\ v.safe => safetext(v).s = v.s /\ safeattr(v).s = v.s
                     /\ ~v.safe => WellEscaped(safetext(v).s)
       /\ last'.op = "call" =>
             /\ (\A k \in DOMAIN last'.attrs : ~last'.attrs[k][2].safe) =>
                    WellEscaped(cur'._attrs)
             /\ \A k \in DOMAIN last'.attrs :
                    (k = Len(last'.attrs) /\ last'.attrs[k][2].safe) =>
                        EndsWith(cur'._attrs, last'.attrs[k][2].s)]_vars

-----------------------------------------------------------------------------
(* C6 *)

\* the text C6 states for one attribute
StatedAttr(attr, value) ==
    LET n == nameprep(attr)
    IN  IF value.t \in {"None", "False"} THEN <<>>
        ELSE IF value.t = "True"
             THEN IF variant = "html" THEN <<" ">> \o n
                  ELSE <<" ">> \o n \o <<"=", "\"">> \o n \o <<"\"">>
        ELSE IF variant = "html" /\ value.s = n THEN <<" ">> \o n
        ELSE <<" ">> \o _attr(attr, value)

RECURSIVE StatedAttrs(_)
StatedAttrs(attrs) ==
    IF attrs = <<>> THEN <<>>
    ELSE StatedAttr(Head(attrs)[1], Head(attrs)[2]) \o StatedAttrs(Tail(attrs))

\* C6: None and False give no text; True gives name="name" (XML) or the
\* bare name (HTML), name being the prepared name; under HTML a string
\* equal to the name gives the bare name; what remains appears in the
\* caller's order, each attribute preceded by one space.
C6_AttributeForms ==
    [][last'.op = "call" => cur'._attrs = StatedAttrs(last'.attrs)]_vars

-----------------------------------------------------------------------------
(* C7 *)

\* C7: a call of an element whose prepared name is a void tag writes the
\* void form, <name attrs/> (XML) or <name attrs> (HTML), between pre and
\* post, whether the content argument is a string, None or missing: no
\* content and no closing tag is written.
C7_VoidTagsAlwaysVoid ==
    [][(last'.op = "call" /\ cur._name \in _empty_tags) =>
          WritesLine(Emitted(last'.pre) \o <<"<">> \o cur._name \o cur'._attrs
                     \o (IF variant = "html" THEN <<">">> ELSE <<"/", ">">>)
                     \o Emitted(last'.post))]_vars

\* the XML builder called a tag of its empty_tags, prepared from if_, with content
C7_Witness ==
    /\ last.op = "call"
    /\ last.value.t = "str"
    /\ variant = "xml"
    /\ input.name = <<"i","f","_">>
    /\ cur._name \in _empty_tags
    /\ emitted # <<>>

-----------------------------------------------------------------------------
(* C8 *)

\* C8: a call of an element that is no void tag leaves the depth and
\* writes at most one line: pre<name attrs>c</name>post for a string c,
\* pre<name attrs/>post for None (with the builder's end of an empty tag:
\* '/>' for XML, '>' for HTML), with pre, c and post escaped unless safe;
\* without a content argument it writes nothing and replaces the stored
\* attribute string, which a later scope entry writes in the opening tag.
C8_CallWritesOneLine ==
    [][/\ (last'.op = "call" /\ cur._name \notin _empty_tags) =>
             /\ _indentation' = _indentation
             /\ cur' = [cur EXCEPT !._attrs = CallAttrs(last'.attrs)]
             /\ last'.value.t = "str" =>
                    WritesLine(Emitted(last'.pre) \o <<"<">> \o cur._name \o cur'._attrs
                               \o <<">">> \o Emitted(last'.value)
                               \o <<"<", "/">> \o cur._name \o <<">">>
                               \o Emitted(last'.post))
             /\ last'.value.t = "None" =>
                    WritesLine(Emitted(last'.pre) \o <<"<">> \o cur._name \o cur'._attrs
                               \o (IF variant = "html" THEN <<">">> ELSE <<"/", ">">>)
                               \o Emitted(last'.post))
             /\ last'.value.t = "Empty" => WritesNothing
       /\ last'.op = "enter" =>
             WritesLine(<<"<">> \o cur._name \o cur._attrs \o <<">">>)]_vars

\* a call without content stored attributes, and the scope entry wrote them
C8_Witness ==
    /\ last.op = "enter"
    /\ input.value = Empty
    /\ cur._name \notin _empty_tags
    /\ cur._attrs # <<>>
    /\ Len(emitted) = 1
    /\ emitted[1].line = Framed(<<"<">> \o cur._name \o cur._attrs \o <<">">>)

-----------------------------------------------------------------------------
(* C11 *)

\* the characters C11 lists: space, double quote, apostrophe, equals, <, >, backtick
QuoteChars == {" ", "\"", "'", "=", "<", ">", Grave}

NeedsQuotes(s) == \E i \in DOMAIN s : s[i] \in QuoteChars

\* the HTML builder writes the attribute as its bare name
Collapsed(attr, value) == value.t = "True" \/ (value.t = "str" /\ value.s = attr)

\* the text of one attribute under the HTML builder, as C11 states it;
\* emptyUnquoted: whether the empty value counts as a value without the
\* listed characters (as the claim reads) or falls under the quoting rule
HtmlStatedAttr(attr, value, emptyUnquoted) ==
    IF value.t \in {"None", "False"} THEN <<>>
    ELSE IF Collapsed(attr, value) THEN <<" ">> \o nameprep(attr)
    ELSE IF NeedsQuotes(value.s) \/ (value.s = <<>> /\ ~emptyUnquoted)
         THEN <<" ">> \o XmlAttr(attr, value)
         ELSE <<" ">> \o nameprep(attr) \o <<"=">> \o value.s

RECURSIVE HtmlStatedAttrs(_, _)
HtmlStatedAttrs(attrs, emptyUnquoted) ==
    IF attrs = <<>> THEN <<>>
    ELSE HtmlStatedAttr(Head(attrs)[1], Head(attrs)[2], emptyUnquoted)
         \o HtmlStatedAttrs(Tail(attrs), emptyUnquoted)

\* the space C11 states between an attribute string and the tag terminator
Separator(s) == IF EndsWith(s, <<"/">>) THEN <<" ">> ELSE <<>>

\* an unmarked value under the quoting rule stands between two equal quotes
\* and holds neither that quote nor a raw '<'
QuotedAndEscaped(attr, value) ==
    LET t == XmlAttr(attr, value)
        n == nameprep(attr)
        q == t[Len(n) + 2]
        inner == SubSeq(t, Len(n) + 3, Len(t) - 1)
    IN  /\ Len(t) >= Len(n) + 3
        /\ StartsWith(t, n \o <<"=">>)
        /\ q \in {"\"", "'"}
        /\ t[Len(t)] = q
        /\ ~Contains(inner, q)
        /\ ~Contains(inner, "<")

\* what C11 states of one step
C11_Stated(emptyUnquoted) ==
       /\ last'.op = "call" =>
             LET S == IF variant = "html"
                      THEN HtmlStatedAttrs(last'.attrs, emptyUnquoted)
                      ELSE JoinAttrs(last'.attrs)
                 A == S \o Separator(S)
                 open == Emitted(last'.pre) \o <<"<">> \o cur._name \o A
             IN  /\ cur'._attrs = A
                 /\ (last'.value.t = "None" \/ cur._name \in _empty_tags) =>
                        WritesLine(open
                                   \o (IF variant = "html" THEN <<">">> ELSE <<"/", ">">>)
                                   \o Emitted(last'.post))
                 /\ (last'.value.t = "str" /\ cur._name \notin _empty_tags) =>
                        WritesLine(open \o <<">">> \o Emitted(last'.value)
                                   \o <<"<", "/">> \o cur._name \o <<">">>
                                   \o Emitted(last'.post))
                 /\ \A k \in DOMAIN last'.attrs :
                        LET a == last'.attrs[k][1]
                            v == last'.attrs[k][2]
                        IN  (/\ v.t = "str"
                             /\ ~v.safe
                             /\ NeedsQuotes(v.s) \/ (v.s = <<>> /\ ~emptyUnquoted)) =>
                                QuotedAndEscaped(a, v)
       /\ last'.op = "enter" =>
             /\ cur._attrs # <<>> => cur._attrs[Len(cur._attrs)] # "/"
             /\ WritesLine(<<"<">> \o cur._name \o cur._attrs \o <<">">>)

\* C11 as stated: under the HTML builder a string attribute value that is
\* not collapsed to the bare name is written unquoted, name=value, when it
\* holds none of the characters space, double quote, apostrophe, equals,
\* <, >, backtick, and by the XML quoting rule otherwise; an attribute
\* string that ends with '/' is followed by exactly one space before the
\* tag terminator.
C11_UnquotedUnlessListedChar == [][C11_Stated(TRUE)]_vars

\* C11, amended: as stated, for values that are not empty; the empty
\* value is written by the XML quoting rule, name="".
C11_UnquotedUnlessListedCharOrEmpty == [][C11_Stated(FALSE)]_vars

\* the HTML builder wrote an empty element whose unquoted value ends with '/'
C11_Witness ==
    /\ variant = "html"
    /\ last.op = "call"
    /\ last.value = None
    /\ last.attrs = << <<<<"h","r","e","f">>, Str(<<"a","/">>)>> >>
    /\ cur._attrs = <<" ","h","r","e","f","=","a","/"," ">>
    /\ Len(emitted) = 1
    /\ Body(emitted[1].line) = <<"<","a"," ","h","r","e","f","=","a","/"," ",">">>

-----------------------------------------------------------------------------
(* C12 *)

RECURSIVE Colons(_)
\* every doubled underscore of s, read from the left, as one ':'
Colons(s) ==
    IF s = <<>> THEN <<>>
    ELSE IF Len(s) >= 2 /\ s[1] = "_" /\ s[2] = "_"
         THEN <<":">> \o Colons(SubSeq(s, 3, Len(s)))
         ELSE <<Head(s)>> \o Colons(Tail(s))

\* the prepared name as C12 states it: a trailing underscore is stripped
StatedName(name) ==
    Colons(IF name # <<>> /\ name[Len(name)] = "_"
           THEN SubSeq(name, 1, Len(name) - 1)
           ELSE name)

\* the prepared name, amended: the underscore after a Python keyword is stripped
KeywordName(name) ==
    Colons(IF \E k \in kwlist : name = k \o <<"_">>
           THEN SubSeq(name, 1, Len(name) - 1)
           ELSE name)

\* the text of the attributes of this specification (values None and 'v'),
\* their names prepared by Prep
NamedAttrs(attrs, Prep(_)) ==
    Concat([k \in DOMAIN attrs |->
               IF attrs[k][2].t = "None" THEN <<>>
               ELSE <<" ">> \o Prep(attrs[k][1])
                    \o (IF variant = "html" THEN <<"=", "v">>
                        ELSE <<"=", "\"", "v", "\"">>)])

\* what C12 states of one step, the prepared name being Prep(identifier)
C12_Stated(Prep(_)) ==
    /\ last'.op = "getattr" =>
          /\ cur' = [some |-> TRUE, _name |-> Prep(last'.name), _attrs |-> <<>>]
          /\ UNCHANGED <<config, _document, stream, _indentation, emitted, scopes>>
    /\ last'.op = "call" =>
          /\ cur'._name = Prep(input.name)
          /\ cur'._attrs = NamedAttrs(last'.attrs, Prep)
          /\ (last'.value.t = "str" /\ cur._name \notin _empty_tags) =>
                WritesLine(<<"<">> \o Prep(input.name) \o NamedAttrs(last'.attrs, Prep)
                           \o <<">">> \o last'.value.s
                           \o <<"<", "/">> \o Prep(input.name) \o <<">">>)
    /\ last'.op = "enter" =>
          WritesLine(<<"<">> \o Prep(input.name) \o cur._attrs \o <<">">>)
    /\ last'.op = "exit" =>
          Body(emitted'[Len(emitted')].line)
            = <<"<", "/">> \o Prep(input.name) \o <<">">>

\* C12 as stated: the emitted name of a tag or an attribute is its
\* identifier without a trailing underscore and with every doubled
\* underscore replaced by ':'; preparing a name changes nothing of the
\* document, and every tag name and attribute name is written prepared.
C12_NamePrepStripsUnderscore == [][C12_Stated(StatedName)]_vars

\* C12, amended: the trailing underscore is stripped only from an
\* identifier that is a Python keyword followed by one underscore, and
\* then every doubled underscore, read from the left, is replaced by ':'.
C12_NamePrepStripsKeywordUnderscore == [][C12_Stated(KeywordName)]_vars

\* <from for="v">x</from> was written for b.from_('x', for_='v')
C12_Witness ==
    /\ variant = "xml"
    /\ last.op = "call"
    /\ input.name = <<"f","r","o","m","_">>
    /\ last.attrs = << <<<<"f","o","r","_">>, Str(<<"v">>)>> >>
    /\ Len(emitted) = 1
    /\ Body(emitted[1].line)
         = <<"<","f","r","o","m"," ","f","o","r","=","\"","v","\"",">","x",
             "<","/","f","r","o","m",">">>

-----------------------------------------------------------------------------
(* C13 *)

\* a prepared name that is no usable identifier: empty, or nothing but separators
InvalidName(n) == \A i \in DOMAIN n : n[i] = ":"

\* C13: constructing an element with an invalid tag name, or giving it an
\* attribute with an invalid name, fails: the operation raises, no element
\* comes of it, nothing is written and the depth stays; so no element with
\* an invalid name is ever held and no tag without a valid name is written.
C13_InvalidNameFails ==
    /\ [](/\ cur.some => ~InvalidName(cur._name)
          /\ \A i \in DOMAIN emitted :
                emitted[i].op \in {"call", "enter", "exit"} =>
                    ~InvalidName(TagName(emitted[i].line)))
    /\ [][/\ (last'.op = "getattr" /\ InvalidName(nameprep(last'.name))) =>
                /\ last'.ret = Raised
                /\ cur' = cur
                /\ WritesNothing
                /\ _indentation' = _indentation
          /\ (/\ last'.op = "call"
              /\ \E k \in DOMAIN last'.attrs : InvalidName(nameprep(last'.attrs[k][1]))) =>
                /\ last'.ret = Raised
                /\ cur' = cur
                /\ WritesNothing
                /\ _indentation' = _indentation]_vars

-----------------------------------------------------------------------------
(* C14 *)

\* the line the step has written
NewLine == emitted'[Len(emitted')].line

\* C14: an exit with an exception in flight changes nothing of the
\* document, the depth included, which keeps the value incremented at the
\* entry: the depth is the number of scopes still open plus the number of
\* failed exits, every line written is prefixed with that many indent
\* units (a closing tag with the units of its opening tag), and after a
\* failed exit the depth is never 0 again.
C14_FailedExitKeepsDepth ==
    /\ [](/\ _indentation = Len(scopes) + failed
          /\ failed >= 1 => _indentation # 0)
    /\ [][/\ last'.op = "fail" =>
                /\ UNCHANGED <<config, _document, stream, _indentation, emitted, cur>>
                /\ _indentation' = Len(scopes') + 1 + failed
          /\ failed >= 1 => _indentation' >= 1
          /\ (last'.op \in {"call", "text", "enter"} /\ ~_indent.none) =>
                /\ Len(emitted') = Len(emitted) + 1
                /\ LeadingSpaces(NewLine) = (Len(scopes) + failed) * Len(_indent.s)
          /\ (last'.op = "exit" /\ ~_indent.none) =>
                /\ Len(emitted') = Len(emitted) + 1
                /\ LeadingSpaces(NewLine) = (Len(scopes') + failed) * Len(_indent.s)]_vars

\* after the only scope was left by an exception, a line was written one unit deep
C14_Witness ==
    /\ failed = 1
    /\ scopes = <<>>
    /\ ~_indent.none
    /\ _indentation = 1
    /\ last.op \in {"call", "text"}
    /\ LeadingSpaces(emitted[Len(emitted)].line) = Len(_indent.s)
    /\ Len(_indent.s) = 2

====
